---- MODULE Spec2Model ----
(***************************************************************************)
(* A model of the "nearest point to the origin" programs:                  *)
(*   raw     src/unnamed/part_000           Point*, new/delete, std::fabs  *)
(*   shared  src/code/cpp11/main.cpp:1-171  shared_ptr<Pos2d<float>>,      *)
(*                                          std::abs                       *)
(* The two other programs of main.cpp are these two with the names and the *)
(* absolute-value function exchanged: lines 175-338 are "shared" with      *)
(* Point and std::fabs, lines 342-504 are "raw" with Pos2d and std::abs.   *)
(*                                                                         *)
(* Floats are modelled on a grid of quarters: the integer v stands for the *)
(* float v/4.  Every value of the grid and every sum of two of them is     *)
(* exactly representable in binary32, so float addition and comparison are *)
(* exact integer addition and comparison here.                             *)
(***************************************************************************)
EXTENDS Integers, Sequences, FiniteSets

VARIABLES
  variant,          \* which program runs ("both": the search harness)
  pc,               \* position in main / NearestToOrigin
  heap,             \* heap[a]: the point object at address a
  points,           \* std::vector of pointers (addresses into heap)
  i,                \* the loop counter of the loop being executed
  nearOrigin,       \* main's counter
  min_index,        \* NearestToOrigin, raw variants
  min_distance,     \* NearestToOrigin / main, raw variants
  nearest_point,    \* main, raw variants: the returned Point*
  min_point,        \* NearestToOrigin, shared_ptr variants
  sp_min_distance,  \* NearestToOrigin / main, shared_ptr variants
  sp_nearest_point, \* main, shared_ptr variants: the returned pointer
  output,           \* what was written to std::cout, in order
  status,           \* process status
  dangling_read     \* a deleted point was dereferenced

vars == <<variant, pc, heap, points, i, nearOrigin, min_index, min_distance,
          nearest_point, min_point, sp_min_distance, sp_nearest_point,
          output, status, dangling_read>>

(***************************************************************************)
(* Bounds and constants                                                    *)
(***************************************************************************)
\* Number of points main generates.  The programs use 100; the model runs
\* the same loops over a shorter collection.
NumPoints == 2

\* Longest collection handed to NearestToOrigin in the search harness.
MaxLen == 3

\* The values RandomNumber can return, in quarters: -1, -0.25, 0, 0.25, 1.
Coords == {-4, -1, 0, 1, 4}

\* 0.5f in quarters.
NearThreshold == 2

\* std::numeric_limits<float>::max(): larger than every distance |x|+|y|
\* of a point with coordinates in [-1, +1].  The largest integer of the
\* model stands for it.
FLT_MAX == 2147483647

\* nullptr
NULL == 0

\* A pointer value that is no address of the heap (garbage read out of
\* bounds).
WILD == -1

Variants == {"raw", "shared"}

IsRaw(v) == v \in {"raw", "both"}

IsShared(v) == v \in {"shared", "both"}

(***************************************************************************)
(* Pure functions                                                          *)
(***************************************************************************)
\* abs(int) of <cstdlib> applied to a float: the argument is truncated
\* towards zero first (4 quarters make one unit).
int_abs(v) == ((IF v < 0 THEN 0 - v ELSE v) \div 4) * 4

\* std::fabs(float)
std_fabs(v) == IF v < 0 THEN 0 - v ELSE v

\* std::abs(float), the <cmath> overload
std_abs(v) == IF v < 0 THEN 0 - v ELSE v

\* float ManhattanToOrigin(Point*), the std::fabs files
ManhattanToOrigin(point) == std_fabs(point.x) + std_fabs(point.y)

\* float ManhattanToOrigin(Pos2d_cptr), the std::abs files
ManhattanToOrigin_abs(point) == std_abs(point.x) + std_abs(point.y)

\* the distance function the raw program calls
RawDistance(point) == ManhattanToOrigin(point)

\* the distance function the shared_ptr program calls
SharedDistance(point) == ManhattanToOrigin_abs(point)

\* the distance function main's counting loop of program v calls
Distance(v, point) ==
  IF IsRaw(v) THEN RawDistance(point) ELSE SharedDistance(point)

PointIsNearOrigin_le(v, point) == Distance(v, point) <= NearThreshold

\* PointIsNearOrigin / Pos2dIsNearOrigin (a function in the raw files, a
\* lambda in the shared_ptr files)
PointIsNearOrigin(v, point) == Distance(v, point) < NearThreshold

(***************************************************************************)
(* Initial state: main has been entered, the vector is empty.  The locals  *)
(* of the search hold placeholders: none of them is read before            *)
(* NearestToOrigin has assigned it.                                        *)
(***************************************************************************)
Init ==
  /\ variant \in Variants
  /\ pc = "generate"
  /\ heap = << >>
  /\ points = << >>
  /\ i = 0
  /\ nearOrigin = 0
  /\ min_index = 0
  /\ min_distance = 0
  /\ nearest_point = NULL
  /\ min_point = NULL
  /\ sp_min_distance = 0
  /\ sp_nearest_point = NULL
  /\ output = << >>
  /\ status = "running"
  /\ dangling_read = FALSE

search_vars == <<min_index, min_distance, nearest_point, min_point,
                 sp_min_distance, sp_nearest_point>>

MoreToGenerate_le(k) == k <= NumPoints

\* the test of the generation loop, "i < 100"
MoreToGenerate(k) == k < NumPoints

\* for (i = 0; i < 100; ++i) points.push_back(RandomPoint());
\* RandomPoint: two draws of RandomNumber, new / make_shared, the report.
RandomPoint ==
  /\ pc = "generate"
  /\ MoreToGenerate(i)
  /\ \E x \in Coords, y \in Coords :
       /\ heap' = Append(heap, [x |-> x, y |-> y, live |-> TRUE, deletes |-> 0])
       /\ points' = Append(points, Len(heap) + 1)
       /\ output' = Append(output, <<"created", x, y>>)
  /\ i' = i + 1
  /\ UNCHANGED <<variant, pc, nearOrigin, search_vars, status, dangling_read>>

\* the end of the generation loop; main goes on to "int nearOrigin = 0" and
\* the counting loop
GenerateDone ==
  /\ pc = "generate"
  /\ ~MoreToGenerate(i)
  /\ pc' = "count"
  /\ nearOrigin' = 0
  /\ i' = 0
  /\ UNCHANGED <<variant, heap, points, search_vars, output, status, dangling_read>>

\* Reading *p. A pointer that is no address of a live object makes the read
\* a dangling one.
IsAddress(p) == p \in DOMAIN heap

Dangling(p) == ~IsAddress(p) \/ ~heap[p].live

Counted_always(v, n, point) == n + 1

\* if (PointIsNearOrigin(points[i])) ++nearOrigin;
Counted(v, n, point) == IF PointIsNearOrigin(v, point) THEN n + 1 ELSE n

\* one iteration of the counting loop
CountStep ==
  /\ pc = "count"
  /\ i < Len(points)
  /\ nearOrigin' = Counted(variant, nearOrigin, heap[points[i + 1]])
  /\ dangling_read' = (dangling_read \/ Dangling(points[i + 1]))
  /\ i' = i + 1
  /\ UNCHANGED <<variant, pc, heap, points, search_vars, output, status>>

\* std::cout << nearOrigin << " of " << points.size() << " points are near
\* the origin.\n"; main then calls NearestToOrigin(points)
ReportCount ==
  /\ pc = "count"
  /\ ~(i < Len(points))
  /\ output' = Append(output, <<"count", nearOrigin, Len(points)>>)
  /\ pc' = "call_nearest"
  /\ UNCHANGED <<variant, heap, points, i, nearOrigin, search_vars, status,
                 dangling_read>>

\* NearestToOrigin, the statements before the loop:
\*   raw:     unsigned int min_index = 0; min_distance = FLT_MAX;
\*   shared:  Pos2d_cptr min_point{nullptr}; float min_distance = FLT_MAX;
NearestEnter ==
  /\ pc = "call_nearest"
  /\ pc' = "search"
  /\ i' = 0
  /\ IF IsRaw(variant)
       THEN min_index' = 0 /\ min_distance' = FLT_MAX
       ELSE UNCHANGED <<min_index, min_distance>>
  /\ IF IsShared(variant)
       THEN min_point' = NULL /\ sp_min_distance' = FLT_MAX
       ELSE UNCHANGED <<min_point, sp_min_distance>>
  /\ UNCHANGED <<variant, heap, points, nearOrigin, nearest_point,
                 sp_nearest_point, output, status, dangling_read>>

Closer_le(d, min) == d <= min

Closer_gt(d, min) == d > min

\* the loop's test, "ManhattanToOrigin(points[i]) < min_distance"
Closer(d, min) == d < min

RawBody_keep(k, st) ==
  IF Closer(RawDistance(heap[points[k + 1]]), st.min_distance)
    THEN [min_index |-> k, min_distance |-> st.min_distance]
    ELSE st

\* the loop body of the raw NearestToOrigin at index k, on the locals st
RawBody(k, st) ==
  IF Closer(RawDistance(heap[points[k + 1]]), st.min_distance)
    THEN [min_index |-> k,
          min_distance |-> RawDistance(heap[points[k + 1]])]
    ELSE st

SharedBody_le(k, st) ==
  IF SharedDistance(heap[points[k + 1]]) <= st.min_distance
    THEN [min_point |-> points[k + 1],
          min_distance |-> SharedDistance(heap[points[k + 1]])]
    ELSE st

\* the loop body of the shared_ptr NearestToOrigin at the k-th element
SharedBody(k, st) ==
  IF Closer(SharedDistance(heap[points[k + 1]]), st.min_distance)
    THEN [min_point |-> points[k + 1],
          min_distance |-> SharedDistance(heap[points[k + 1]])]
    ELSE st

\* one iteration of NearestToOrigin's loop; the harness "both" steps the
\* two searches side by side
SearchStep ==
  /\ pc = "search"
  /\ i < Len(points)
  /\ IF IsRaw(variant)
       THEN LET st == RawBody(i, [min_index |-> min_index,
                                  min_distance |-> min_distance])
            IN  min_index' = st.min_index /\ min_distance' = st.min_distance
       ELSE UNCHANGED <<min_index, min_distance>>
  /\ IF IsShared(variant)
       THEN LET st == SharedBody(i, [min_point |-> min_point,
                                     min_distance |-> sp_min_distance])
            IN  min_point' = st.min_point /\ sp_min_distance' = st.min_distance
       ELSE UNCHANGED <<min_point, sp_min_distance>>
  /\ dangling_read' = (dangling_read \/ Dangling(points[i + 1]))
  /\ i' = i + 1
  /\ UNCHANGED <<variant, pc, heap, points, nearOrigin, nearest_point,
                 sp_nearest_point, output, status>>

\* What "return points[min_index]" can yield.  Inside the vector it is the
\* element.  Outside (only min_index = 0 on an empty vector) the read is out
\* of bounds: it faults, or yields whatever the memory holds.
RawReturnValues ==
  IF min_index < Len(points) THEN {points[min_index + 1]} ELSE {NULL, WILD}

RawReturnFaults == ~(min_index < Len(points))

\* the end of the loop and the return statement
SearchReturn ==
  /\ pc = "search"
  /\ ~(i < Len(points))
  /\ IF IsShared(variant)
       THEN sp_nearest_point' = min_point
       ELSE UNCHANGED sp_nearest_point
  /\ IF IsRaw(variant)
       THEN \/ /\ nearest_point' \in RawReturnValues
               /\ pc' = "report_nearest"
               /\ UNCHANGED status
            \/ /\ RawReturnFaults
               /\ pc' = "done"
               /\ status' = "SIGSEGV"
               /\ UNCHANGED nearest_point
       ELSE pc' = "report_nearest" /\ UNCHANGED <<nearest_point, status>>
  /\ UNCHANGED <<variant, heap, points, i, nearOrigin, min_index, min_distance,
                 min_point, sp_min_distance, output, dangling_read>>

\* the pointer and the distance main holds after the call
MainNearest == IF IsRaw(variant) THEN nearest_point ELSE sp_nearest_point

MainMinDistance == IF IsRaw(variant) THEN min_distance ELSE sp_min_distance

\* std::cout << "The nearest point was " << *nearest_point << " with
\* distance " << min_distance; the raw programs go on to the tidy-up loop
ReportNearest ==
  /\ pc = "report_nearest"
  /\ IF IsAddress(MainNearest)
       THEN /\ output' = Append(output, <<"nearest", heap[MainNearest].x,
                                          heap[MainNearest].y, MainMinDistance>>)
            /\ dangling_read' = (dangling_read \/ Dangling(MainNearest))
            /\ pc' = IF IsRaw(variant) THEN "tidy" ELSE "return"
            /\ UNCHANGED status
       ELSE /\ pc' = "done"
            /\ status' = "SIGSEGV"
            /\ UNCHANGED <<output, dangling_read>>
  /\ i' = 0
  /\ UNCHANGED <<variant, heap, points, nearOrigin, search_vars>>

TidyTarget_first(k) == points[1]

\* the element the k-th iteration of the tidy-up loop deletes
TidyTarget(k) == points[k + 1]

\* delete p
Delete(h, p) ==
  [h EXCEPT ![p] = [@ EXCEPT !.live = FALSE, !.deletes = @ + 1]]

\* for (i = 0; i < points.size(); ++i) delete points[i];
TidyStep ==
  /\ pc = "tidy"
  /\ i < Len(points)
  /\ heap' = Delete(heap, TidyTarget(i))
  /\ i' = i + 1
  /\ UNCHANGED <<variant, pc, points, nearOrigin, search_vars, output, status,
                 dangling_read>>

TidyDone ==
  /\ pc = "tidy"
  /\ ~(i < Len(points))
  /\ pc' = "return"
  /\ UNCHANGED <<variant, heap, points, i, nearOrigin, search_vars, output,
                 status, dangling_read>>

RECURSIVE ReleaseAll(_, _)
\* the destructors of nearest_point and of the vector of shared_ptr: every
\* point loses its last owner and is destroyed
ReleaseAll(h, k) ==
  IF k > Len(points) THEN h ELSE ReleaseAll(Delete(h, points[k]), k + 1)

\* std::cout << "Compiled using ..."; return EXIT_SUCCESS;
MainReturn ==
  /\ pc = "return"
  /\ output' = Append(output, <<"compiled">>)
  /\ heap' = IF IsRaw(variant) THEN heap ELSE ReleaseAll(heap, 1)
  /\ status' = "EXIT_SUCCESS"
  /\ pc' = "done"
  /\ UNCHANGED <<variant, points, i, nearOrigin, search_vars, dangling_read>>

Next ==
  \/ RandomPoint
  \/ GenerateDone
  \/ CountStep
  \/ ReportCount
  \/ NearestEnter
  \/ SearchStep
  \/ SearchReturn
  \/ ReportNearest
  \/ TidyStep
  \/ TidyDone
  \/ MainReturn

Spec == Init /\ [][Next]_vars

\* main is a sequential program: whenever a statement can run, it runs
FairSpec == Spec /\ WF_vars(Next)
(***************************************************************************)
(* The search harness: NearestToOrigin called on an arbitrary collection   *)
(* of 0..MaxLen points, the raw search (part_000) and the shared_ptr       *)
(* search (main.cpp:119) stepped side by side on the same vector.          *)
(***************************************************************************)
PointObjects ==
  {[x |-> x, y |-> y, live |-> TRUE, deletes |-> 0] : x \in Coords, y \in Coords}

SearchInit ==
  /\ variant = "both"
  /\ pc = "call_nearest"
  /\ heap \in UNION {[1..n -> PointObjects] : n \in 0..MaxLen}
  /\ points = [k \in 1..Len(heap) |-> k]
  /\ i = 0
  /\ nearOrigin = 0
  /\ min_index = 0
  /\ min_distance = 0
  /\ nearest_point = NULL
  /\ min_point = NULL
  /\ sp_min_distance = 0
  /\ sp_nearest_point = NULL
  /\ output = << >>
  /\ status = "running"
  /\ dangling_read = FALSE

SearchNext ==
  \/ NearestEnter
  \/ SearchStep
  \/ SearchReturn

SearchSpec == SearchInit /\ [][SearchNext]_vars

(***************************************************************************)
(* Claims                                                                  *)
(***************************************************************************)
\* distance of the k-th element as the raw / the shared_ptr search sees it
RawD(k) == RawDistance(heap[points[k]])

SharedD(k) == SharedDistance(heap[points[k]])

Returned == pc = "report_nearest" /\ Len(points) > 0

\* C1: on a non-empty collection NearestToOrigin returns the minimum of
\* ManhattanToOrigin over the collection as the distance, and an element of
\* the collection whose distance is that minimum.
C1_NearestIsMinimum ==
  /\ (Returned /\ IsRaw(variant)) =>
       /\ \A k \in 1..Len(points) : min_distance <= RawD(k)
       /\ \E k \in 1..Len(points) :
            points[k] = nearest_point /\ RawD(k) = min_distance
  /\ (Returned /\ IsShared(variant)) =>
       /\ \A k \in 1..Len(points) : sp_min_distance <= SharedD(k)
       /\ \E k \in 1..Len(points) :
            points[k] = sp_nearest_point /\ SharedD(k) = sp_min_distance

\* C1 witness: the search returned the second of two points, the closer one.
C1_Witness ==
  /\ Returned
  /\ Len(points) >= 2
  /\ RawD(2) < RawD(1)
  /\ nearest_point = points[2]
  /\ sp_nearest_point = points[2]
  /\ min_distance = RawD(2)

\* C2: among several points at the minimum distance the search keeps the
\* first in iteration order: during the loop and at the return no element
\* before the designated one is as close as it, so a later tie never
\* replaced an earlier point.
C2_FirstMinimumWins ==
  /\ (pc = "search" /\ i > 0 /\ IsRaw(variant)) =>
       /\ min_index < i
       /\ RawD(min_index + 1) = min_distance
       /\ \A k \in 1..i : RawD(k) >= min_distance
       /\ \A k \in 1..min_index : RawD(k) > min_distance
  /\ (pc = "search" /\ i > 0 /\ IsShared(variant)) =>
       \E j \in 1..i :
         /\ points[j] = min_point
         /\ SharedD(j) = sp_min_distance
         /\ \A k \in 1..i : SharedD(k) >= sp_min_distance
         /\ \A k \in 1..(j - 1) : SharedD(k) > sp_min_distance
  /\ (Returned /\ IsRaw(variant)) =>
       \E j \in 1..Len(points) :
         /\ points[j] = nearest_point
         /\ \A k \in 1..Len(points) : RawD(k) >= RawD(j)
         /\ \A k \in 1..(j - 1) : RawD(k) > RawD(j)
  /\ (Returned /\ IsShared(variant)) =>
       \E j \in 1..Len(points) :
         /\ points[j] = sp_nearest_point
         /\ \A k \in 1..Len(points) : SharedD(k) >= SharedD(j)
         /\ \A k \in 1..(j - 1) : SharedD(k) > SharedD(j)

\* C2 witness: two different points tie at the minimum, (1,0) and (0,1) of
\* the spec's example, and the first was returned.
C2_Witness ==
  /\ Returned
  /\ Len(points) >= 2
  /\ heap[points[1]].x = 4 /\ heap[points[1]].y = 0
  /\ heap[points[2]].x = 0 /\ heap[points[2]].y = 4
  /\ \A k \in 1..Len(points) : RawD(k) >= 4
  /\ nearest_point = points[1]
  /\ sp_nearest_point = points[1]

\* C3: NearestToOrigin on an empty collection raises EmptyInputError: no
\* point and no sentinel distance come back and the process does not fault.
C3_EmptyRaises ==
  (Len(points) = 0 /\ pc \in {"report_nearest", "done"}) =>
    /\ status = "EmptyInputError"
    /\ min_distance # FLT_MAX
    /\ sp_min_distance # FLT_MAX

\* C9: on a non-empty collection the index-based and the reference-based
\* search agree after every iteration on the running minimum and on the
\* designated element, and return the same point and distance.
C9_SearchesAgree ==
  (variant = "both" /\ Len(points) > 0) =>
    /\ (pc = "search" /\ i > 0) =>
         /\ min_distance = sp_min_distance
         /\ points[min_index + 1] = min_point
    /\ pc = "report_nearest" =>
         /\ min_distance = sp_min_distance
         /\ nearest_point = sp_nearest_point
         /\ IsAddress(nearest_point)

\* C9 witness: both searches have returned the last of MaxLen-many points
\* after an earlier tie.
C9_Witness ==
  /\ variant = "both"
  /\ Returned
  /\ Len(points) >= 2
  /\ RawD(1) > RawD(2)
  /\ nearest_point = points[2]
  /\ sp_nearest_point = nearest_point
  /\ sp_min_distance = min_distance
\* what one counting step does to the counter, for the point it looks at
CountStepCounts ==
  (pc = "count" /\ i < Len(points)) =>
    LET p == heap[points[i + 1]]
        d == Distance(variant, p)
    IN  /\ nearOrigin' \in {nearOrigin, nearOrigin + 1}
        /\ (nearOrigin' = nearOrigin + 1) <=> (d < NearThreshold)
        /\ (d = NearThreshold) => (nearOrigin' = nearOrigin)
        /\ (p.x = 0 /\ p.y = 0) => (nearOrigin' = nearOrigin + 1)

\* C4: a point is counted as near the origin exactly when its Manhattan
\* distance is strictly below 0.5: the counting step increments nearOrigin
\* for such a point and for no other; a point at distance exactly 0.5 is
\* not counted, the point (0,0) is.
C4_NearIffBelowHalf == [][CountStepCounts]_vars

\* C4 witness: (0,0) was counted, then (0.25,0.25), at distance exactly
\* 0.5, was not.
C4_Witness ==
  /\ pc = "count"
  /\ i = 2
  /\ heap[points[1]].x = 0 /\ heap[points[1]].y = 0
  /\ heap[points[2]].x = 1 /\ heap[points[2]].y = 1
  /\ nearOrigin = 1

\* the elements among the first n whose distance is below threshold t
Below(n, t) == {k \in 1..n : Distance(variant, heap[points[k]]) < t}

\* C5: the count equals the number of points whose distance is below the
\* threshold, during the loop over the points scanned so far and afterwards
\* over the whole collection; it never exceeds the number scanned nor the
\* size; with a threshold <= 0 no point is below it, so that count is 0.
C5_CountIsNumberBelow ==
  /\ pc = "count" =>
       /\ nearOrigin = Cardinality(Below(i, NearThreshold))
       /\ nearOrigin <= i
       /\ i <= Len(points)
  /\ pc \in {"call_nearest", "search", "report_nearest", "tidy", "return", "done"} =>
       /\ nearOrigin = Cardinality(Below(Len(points), NearThreshold))
       /\ nearOrigin <= Len(points)
       /\ output[NumPoints + 1] = <<"count", nearOrigin, Len(points)>>
  /\ \A t \in {-4, -1, 0} : Cardinality(Below(Len(points), t)) = 0

\* C5 witness: the loop is over and exactly one of the points was near.
C5_Witness ==
  /\ pc = "call_nearest"
  /\ nearOrigin = 1
  /\ Cardinality(Below(Len(points), NearThreshold)) = 1
  /\ Len(points) = NumPoints
  /\ Distance(variant, heap[points[1]]) > NearThreshold

SignSymmetric(M(_), p) ==
  LET q(a, b) == [p EXCEPT !.x = a, !.y = b]
  IN  /\ M(p) = M(q(0 - p.x, p.y))
      /\ M(p) = M(q(p.x, 0 - p.y))
      /\ M(p) = M(q(0 - p.x, 0 - p.y))
      /\ M(p) >= 0
      /\ (M(p) = 0) <=> (p.x = 0 /\ p.y = 0)
      /\ M(p) >= p.x + p.y
      /\ M(p) \in {p.x + p.y, p.x - p.y, p.y - p.x, 0 - p.x - p.y}

\* C6: ManhattanToOrigin is |x| + |y|: it is the same for the four sign
\* combinations of a point, never negative and 0 only for (0,0), in the
\* std::fabs files and in the std::abs files alike.
C6_SignSymmetry ==
  \A a \in DOMAIN heap :
    /\ SignSymmetric(ManhattanToOrigin, heap[a])
    /\ SignSymmetric(ManhattanToOrigin_abs, heap[a])
    /\ ManhattanToOrigin(heap[a]) = ManhattanToOrigin_abs(heap[a])

\* C6 witness: a point with a negative and a positive fractional coordinate
\* has been measured by the counting loop.
C6_Witness ==
  /\ pc = "count"
  /\ i >= 1
  /\ heap[points[1]].x = -1
  /\ heap[points[1]].y = 4
  /\ Distance(variant, heap[points[1]]) = 5

Kind(k) == output[k][1]

\* the reports so far are a prefix of: one creation report per point in
\* insertion order, the count report, the nearest-point report, (the
\* compiler line); a stage's report is there only once the stage before it
\* is over
OutputOrdered ==
  /\ Len(output) <= NumPoints + 3
  /\ \A k \in 1..Len(output) :
       /\ k <= NumPoints =>
            /\ k <= Len(points)
            /\ IsAddress(points[k])
            /\ output[k] = <<"created", heap[points[k]].x, heap[points[k]].y>>
       /\ k = NumPoints + 1 => Kind(k) = "count"
       /\ k = NumPoints + 2 => Kind(k) = "nearest"
       /\ k = NumPoints + 3 => Kind(k) = "compiled"
  /\ pc = "generate" => Len(output) = Len(points) /\ Len(points) <= NumPoints
  /\ pc # "generate" =>
       /\ Len(points) = NumPoints
       /\ \A k \in 1..Len(points) : points[k] # NULL /\ IsAddress(points[k])
       /\ \A k, l \in 1..Len(points) : points[k] = points[l] => k = l
  /\ pc = "count" => Len(output) = NumPoints
  /\ pc \in {"call_nearest", "search", "report_nearest"} =>
       Len(output) = NumPoints + 1
  /\ pc \in {"tidy", "return"} => Len(output) = NumPoints + 2
  /\ pc = "done" => Len(output) = NumPoints + 3 /\ status = "EXIT_SUCCESS"
  /\ pc # "done" => status = "running"

\* C7: every run of main ends with success, having reported NumPoints
\* creations, then the count, then the nearest point, in this order, each
\* stage after the one before it is over; there is no other exit.
C7_RunsInOrderToSuccess ==
  /\ []OutputOrdered
  /\ <>(pc = "done" /\ status = "EXIT_SUCCESS")

\* C7 witness: main has returned EXIT_SUCCESS after all its reports.
C7_Witness ==
  /\ pc = "done"
  /\ status = "EXIT_SUCCESS"
  /\ Len(output) = NumPoints + 3
  /\ Kind(1) = "created"
  /\ Kind(NumPoints + 1) = "count"
  /\ Kind(NumPoints + 2) = "nearest"

\* C8: in the raw-pointer programs every point is deleted exactly once by
\* the time main returns, never twice, and none is read after its delete:
\* deletes start only after the nearest-point report, whose pointer is an
\* element of the collection.
C8_DeleteOnceNoDanglingRead ==
  IsRaw(variant) =>
    /\ ~dangling_read
    /\ \A a \in DOMAIN heap :
         /\ heap[a].deletes <= 1
         /\ heap[a].live <=> (heap[a].deletes = 0)
         /\ heap[a].deletes = 1 =>
              /\ pc \in {"tidy", "return", "done"}
              /\ Len(output) >= NumPoints + 2
              /\ Kind(NumPoints + 2) = "nearest"
    /\ pc \in {"return", "done"} =>
         /\ Len(heap) = NumPoints
         /\ \A a \in DOMAIN heap : heap[a].deletes = 1
         /\ \A a \in DOMAIN heap : \E k \in 1..Len(points) : points[k] = a
    /\ pc \in {"tidy", "return", "done"} =>
         \E k \in 1..Len(points) : points[k] = nearest_point
    /\ pc = "tidy" =>
         \A k \in 1..Len(points) : heap[points[k]].live <=> (k > i)

\* C8 witness: a raw-pointer main has returned, the last point was the
\* nearest, and every point has been deleted once.
C8_Witness ==
  /\ IsRaw(variant)
  /\ pc = "done"
  /\ nearest_point = points[NumPoints]
  /\ \A a \in DOMAIN heap : heap[a].deletes = 1 /\ ~heap[a].live
  /\ Len(heap) = NumPoints

AfterSearch == pc \in {"report_nearest", "tidy", "return"}

\* a step of the counting loop or of the search keeps the vector and the
\* coordinates of every point
CollectionKept ==
  pc \in {"count", "call_nearest", "search"} =>
    /\ points' = points
    /\ Len(heap') = Len(heap)
    /\ \A a \in DOMAIN heap : heap'[a].x = heap[a].x /\ heap'[a].y = heap[a].y

\* C10: the count is positive exactly when the minimum distance the search
\* returned is below 0.5, and the counting loop and the search leave the
\* collection as it was: the same pointers in the same order to the same
\* coordinates.
C10_ReportsAgree ==
  /\ [](AfterSearch => ((nearOrigin > 0) <=> (MainMinDistance < NearThreshold)))
  /\ [][CollectionKept]_vars

\* C10 witness: the search is over, no point was near, and the minimum
\* distance is exactly 0.5.
C10_Witness ==
  /\ AfterSearch
  /\ nearOrigin = 0
  /\ MainMinDistance = NearThreshold
  /\ Len(points) = NumPoints
====
